---- MODULE Spec2Model ----
(***************************************************************************)
(* Expiry-state and reminder engine of the pantry tracker:                 *)
(*   src/src/services/notificationService.js  (classifier, reminder pass)  *)
(*   src/App.js                               (collection, handlers)       *)
(*   src/unnamed/part_002                     (remote pantry store client) *)
(*                                                                         *)
(* Time is counted in whole local days (day numbers of the proleptic       *)
(* Gregorian calendar) plus an hour of the day; a local day is taken to be *)
(* 24 hours long (no daylight-saving shift), so that                       *)
(* Math.ceil((a - b) / 86400000) of two local midnights is a - b in days.  *)
(***************************************************************************)
EXTENDS Integers, Sequences, FiniteSets, Bags, TLC

VARIABLES
    now,              \* the wall clock: [day, hour]   (new Date())
    engine,           \* which Date-string parser the JavaScript engine has
    platform,         \* Platform.OS: "web" or "native"
    permission,       \* notification permission currently granted?
    isAuthenticated,  \* App.js:33
    pantryItems,      \* App.js:37  the in-memory collection
    pantryLoading,    \* App.js:38
    editingItem,      \* App.js:39  (NoItem when null)
    remote,           \* the remote store's items (behind aiService)
    nextId,           \* next id the remote store assigns
    loadOp,           \* loadPantry in flight
    addOp,            \* handleAddItem in flight
    updateOp,         \* handleUpdateItem in flight
    deleteOp,         \* handleDeleteItem in flight
    passes,           \* scheduleExpiryNotifications calls in flight, by caller
    scheduled,        \* bag of reminders held by the notification subsystem
    delivered,        \* bag of notifications presented immediately
    toast,            \* the Toasts shown by the latest step
    started           \* how many handler invocations the run has seen

vars == <<now, engine, platform, permission, isAuthenticated, pantryItems,
          pantryLoading, editingItem, remote, nextId, loadOp, addOp, updateOp,
          deleteOp, passes, scheduled, delivered, toast, started>>

(***************************************************************************)
(* Bounds of the model.                                                    *)
(***************************************************************************)
MaxOps == 3            \* handler invocations and periodic checks followed
MaxClock == 2          \* half-day steps the clock takes
MaxDelivered == 2      \* copies of one immediate notification that are counted

(***************************************************************************)
(* Calendar: what new Date(y, m - 1, d) and setHours(0, 0, 0, 0) compute.  *)
(***************************************************************************)
NaN == -1

IsLeap(y) == (y % 4 = 0 /\ y % 100 # 0) \/ y % 400 = 0

DaysInMonth(y, m) ==
    IF m = 2 THEN (IF IsLeap(y) THEN 29 ELSE 28)
    ELSE IF m \in {4, 6, 9, 11} THEN 30 ELSE 31

RECURSIVE DaysBeforeMonth(_, _)
DaysBeforeMonth(y, m) ==
    IF m <= 1 THEN 0 ELSE DaysBeforeMonth(y, m - 1) + DaysInMonth(y, m - 1)

DaysBeforeYear(y) ==
    365 * (y - 1) + ((y - 1) \div 4) - ((y - 1) \div 100) + ((y - 1) \div 400)

\* new Date(y, monthIndex, d) followed by setHours(0,0,0,0): the day number.
\* Years 0..99 mean 1900..1999; month and day overflow roll over.
MakeDate(y, monthIndex, d) ==
    LET full == IF y >= 0 /\ y <= 99 THEN 1900 + y ELSE y
        yy   == full + (monthIndex \div 12)
        mm   == (monthIndex % 12) + 1
    IN  DaysBeforeYear(yy) + DaysBeforeMonth(yy, mm) + (d - 1)

\* Mutant of StartOfDay: from 09:00 on, the day counts as the next one.
StartOfDayFromNine(t) == IF t.hour >= 9 THEN t.day + 1 ELSE t.day

\* today = new Date(); today.setHours(0, 0, 0, 0): the day number of the local
\* midnight before the instant t.
StartOfDay(t) == t.day

(***************************************************************************)
(* Expiry strings. A string is represented by its written form and its     *)
(* numeric tokens in the order written:                                    *)
(*   "empty"   ""  (or a missing field)                                    *)
(*   "text"    "Nov 30, 2025"   t1 = month, t2 = day, t3 = year            *)
(*   "numeric" "30/11/2025" or "30-11-2025"   t1, t2, t3 as written        *)
(*   "junk"    "not a date"     (no separator)                             *)
(*   "junk3"   "a/b/c"          (three tokens, none a number)              *)
(***************************************************************************)
Str(form, t1, t2, t3) == [form |-> form, t1 |-> t1, t2 |-> t2, t3 |-> t3]
EmptyStr == Str("empty", 0, 0, 0)
JunkStr  == Str("junk", 0, 0, 0)
Junk3Str == Str("junk3", 0, 0, 0)

\* new Date(str).getTime() normalised to a day number, NaN for Invalid Date.
\* Parsing of non-ISO strings is implementation-defined: the "legacy" engines
\* (V8, JavaScriptCore) read a numeric string month-first and reject a first
\* token above 12; a "strict" engine rejects every numeric string.
NativeParseLegacy(s) ==
    CASE s.form = "text" -> MakeDate(s.t3, s.t1 - 1, s.t2)
      [] s.form = "numeric" ->
            IF s.t1 >= 1 /\ s.t1 <= 12 /\ s.t2 >= 1 /\ s.t2 <= 31
            THEN MakeDate(s.t3, s.t1 - 1, s.t2) ELSE NaN
      [] OTHER -> NaN

NativeParse(s, eng) ==
    IF eng = "strict" /\ s.form = "numeric" THEN NaN ELSE NativeParseLegacy(s)

\* new Date(string) never throws for a string argument.
DateCtorThrows(s) == FALSE

\* str.split(/[\/\-]/).map(p => parseInt(p, 10))
SplitParts(s) ==
    CASE s.form = "numeric" -> <<s.t1, s.t2, s.t3>>
      [] s.form = "junk3"   -> <<NaN, NaN, NaN>>
      [] OTHER              -> <<NaN>>

\* The day-first decomposition: [d, m, y] -> new Date(y, m - 1, d).
\* `dflt` is the value expiryDate keeps when the decomposition does not apply.
DayFirstParse(s, dflt) ==
    LET parts == SplitParts(s) IN
    IF Len(parts) = 3
    THEN IF parts[1] # NaN /\ parts[2] # NaN /\ parts[3] # NaN
         THEN MakeDate(parts[3], parts[2] - 1, parts[1])
         ELSE dflt
    ELSE dflt

(***************************************************************************)
(* calculateExpiryStatus                                                   *)
(***************************************************************************)
\* Lines 62-76: the date the classifier works with (NaN: null or Invalid Date).
ClassifierDate(s, eng) ==
    IF DateCtorThrows(s) THEN DayFirstParse(s, NaN) ELSE NativeParse(s, eng)

\* Mutant of StatusOfDays: the expiring window ends a day early.
StatusOfDaysShortWindow(daysUntilExpiry) ==
    IF daysUntilExpiry < 0 THEN "expired"
    ELSE IF daysUntilExpiry < 3 THEN "expiring"
    ELSE "fresh"

StatusOfDays(daysUntilExpiry) ==
    IF daysUntilExpiry < 0 THEN "expired"
    ELSE IF daysUntilExpiry <= 3 THEN "expiring"
    ELSE "fresh"

\* Mutant of calculateExpiryStatus: an unresolved date counts as expired.
calculateExpiryStatusFailClosed(expiryDateStr, eng, today) ==
    IF expiryDateStr.form = "empty" THEN "fresh"
    ELSE LET expiryDate == ClassifierDate(expiryDateStr, eng) IN
         IF expiryDate = NaN THEN "expired"
         ELSE StatusOfDays(expiryDate - today)

calculateExpiryStatus(expiryDateStr, eng, today) ==
    IF expiryDateStr.form = "empty" THEN "fresh"
    ELSE LET expiryDate == ClassifierDate(expiryDateStr, eng) IN
         IF expiryDate = NaN THEN "fresh"
         ELSE StatusOfDays(expiryDate - today)

\* Mutant of checkAndUpdateExpiryStatus: one unresolved date makes the whole
\* batch fresh.
checkAndUpdateExpiryStatusAllOrNothing(items, eng, today) ==
    [i \in 1..Len(items) |->
        [items[i] EXCEPT !.status =
            IF \E j \in 1..Len(items) :
                  /\ items[j].expiry_date.form # "empty"
                  /\ ClassifierDate(items[j].expiry_date, eng) = NaN
            THEN "fresh"
            ELSE calculateExpiryStatus(items[i].expiry_date, eng, today)]]

\* items.map(item => ({...item, status: calculateExpiryStatus(item.expiry_date)}))
checkAndUpdateExpiryStatus(items, eng, today) ==
    [i \in 1..Len(items) |->
        [items[i] EXCEPT !.status =
            calculateExpiryStatus(items[i].expiry_date, eng, today)]]

(***************************************************************************)
(* scheduleExpiryNotifications: the events of one item (lines 125-216)     *)
(***************************************************************************)
Immediate == [day |-> NaN, hour |-> NaN]          \* trigger: null
AtNine(day) == [day |-> day, hour |-> 9]          \* setHours(9, 0, 0, 0)

Event(item, kind, fireAt) == [id |-> item.id, kind |-> kind, fireAt |-> fireAt]

\* Lines 129-142: the date the reminder pass works with.
PlannerDate(s, eng) ==
    LET expiryDate == NativeParse(s, eng) IN
    IF expiryDate = NaN THEN DayFirstParse(s, expiryDate) ELSE expiryDate

\* Mutant of ItemEvents: the day-before reminder needs two days of notice.
ItemEventsLateDayBefore(item, eng, today) ==
    IF item.expiry_date.form = "empty" THEN <<>>
    ELSE LET expiryDate == PlannerDate(item.expiry_date, eng) IN
         IF expiryDate = NaN THEN <<>>
         ELSE LET daysUntilExpiry == expiryDate - today IN
              (IF daysUntilExpiry >= 0
                 THEN <<Event(item, "T-0", AtNine(expiryDate))>> ELSE <<>>)
              \o (IF daysUntilExpiry >= 2
                 THEN <<Event(item, "T-1", AtNine(expiryDate - 1))>> ELSE <<>>)
              \o (IF daysUntilExpiry >= 3
                 THEN <<Event(item, "T-3", AtNine(expiryDate - 3))>> ELSE <<>>)
              \o (IF daysUntilExpiry < 0 /\ daysUntilExpiry >= -1
                 THEN <<Event(item, "overdue", Immediate)>> ELSE <<>>)

\* Mutant of ItemEvents: the overdue notice goes out for two days.
ItemEventsLongOverdue(item, eng, today) ==
    IF item.expiry_date.form = "empty" THEN <<>>
    ELSE LET expiryDate == PlannerDate(item.expiry_date, eng) IN
         IF expiryDate = NaN THEN <<>>
         ELSE LET daysUntilExpiry == expiryDate - today IN
              (IF daysUntilExpiry >= 0
                 THEN <<Event(item, "T-0", AtNine(expiryDate))>> ELSE <<>>)
              \o (IF daysUntilExpiry >= 1
                 THEN <<Event(item, "T-1", AtNine(expiryDate - 1))>> ELSE <<>>)
              \o (IF daysUntilExpiry >= 3
                 THEN <<Event(item, "T-3", AtNine(expiryDate - 3))>> ELSE <<>>)
              \o (IF daysUntilExpiry < 0 /\ daysUntilExpiry >= -2
                 THEN <<Event(item, "overdue", Immediate)>> ELSE <<>>)

\* Mutant of ItemEvents: the early warning goes out on the day before expiry.
ItemEventsWarningDayBefore(item, eng, today) ==
    IF item.expiry_date.form = "empty" THEN <<>>
    ELSE LET expiryDate == PlannerDate(item.expiry_date, eng) IN
         IF expiryDate = NaN THEN <<>>
         ELSE LET daysUntilExpiry == expiryDate - today IN
              (IF daysUntilExpiry >= 0
                 THEN <<Event(item, "T-0", AtNine(expiryDate))>> ELSE <<>>)
              \o (IF daysUntilExpiry >= 1
                 THEN <<Event(item, "T-1", AtNine(expiryDate - 1))>> ELSE <<>>)
              \o (IF daysUntilExpiry >= 3
                 THEN <<Event(item, "T-3", AtNine(expiryDate - 1))>> ELSE <<>>)
              \o (IF daysUntilExpiry < 0 /\ daysUntilExpiry >= -1
                 THEN <<Event(item, "overdue", Immediate)>> ELSE <<>>)

\* The scheduleNotificationAsync calls made for one item, in the order made,
\* when none of them fails.
ItemEvents(item, eng, today) ==
    IF item.expiry_date.form = "empty" THEN <<>>
    ELSE LET expiryDate == PlannerDate(item.expiry_date, eng) IN
         IF expiryDate = NaN THEN <<>>
         ELSE LET daysUntilExpiry == expiryDate - today IN
              (IF daysUntilExpiry >= 0
                 THEN <<Event(item, "T-0", AtNine(expiryDate))>> ELSE <<>>)
              \o (IF daysUntilExpiry >= 1
                 THEN <<Event(item, "T-1", AtNine(expiryDate - 1))>> ELSE <<>>)
              \o (IF daysUntilExpiry >= 3
                 THEN <<Event(item, "T-3", AtNine(expiryDate - 3))>> ELSE <<>>)
              \o (IF daysUntilExpiry < 0 /\ daysUntilExpiry >= -1
                 THEN <<Event(item, "overdue", Immediate)>> ELSE <<>>)

\* The first item at or after position i for which a call is made.
RECURSIVE FirstWithEvents(_, _, _, _)
FirstWithEvents(items, eng, today, i) ==
    IF i > Len(items) THEN i
    ELSE IF Len(ItemEvents(items[i], eng, today)) > 0 THEN i
    ELSE FirstWithEvents(items, eng, today, i + 1)

(***************************************************************************)
(* One call of scheduleExpiryNotifications, suspended at its awaits.       *)
(*   pc = "cancel"  awaiting cancelAllScheduledNotificationsAsync (115)    *)
(*   pc = "perm"    awaiting requestNotificationPermissions (117)          *)
(*   pc = "sched"   awaiting scheduleNotificationAsync for event k of      *)
(*                  item i (152, 170, 188, 202)                            *)
(*   pc = "done"    the promise has settled; result says how               *)
(* sent lists the events the subsystem accepted from this call, dropped is *)
(* the number of reminders its cancel-all removed.                         *)
(***************************************************************************)
Callers == {"load", "add", "update", "tick", "resume"}

NoPass == [pc |-> "none", items |-> <<>>, i |-> 0, k |-> 0, today |-> 0,
           dropped |-> 0, sent |-> <<>>, failed |-> FALSE, result |-> "none"]

DonePass(p, result) == [p EXCEPT !.pc = "done", !.result = result]

\* Mutant of StartPass: the call does not look at the platform.
StartPassEverywhere(items, plat) ==
    [NoPass EXCEPT !.pc = "cancel", !.items = items]

\* Lines 108-115: the synchronous part of the call.
StartPass(items, plat) ==
    IF plat = "web"
    THEN [NoPass EXCEPT !.pc = "done", !.items = items, !.result = "web"]
    ELSE [NoPass EXCEPT !.pc = "cancel", !.items = items]

PassFree(c) == passes[c].pc = "none"

\* A call has finished and its promise is about to settle. The continuation of
\* the awaiting handler, or nothing for a call nobody awaits, runs before any
\* other event-loop turn.
Settling == \E c \in Callers : passes[c].pc = "done"

\* Continue the loop at item i, event k: suspend at the next call or finish.
ResumeLoop(p, i, k) ==
    IF i <= Len(p.items) /\ k <= Len(ItemEvents(p.items[i], engine, p.today))
    THEN [p EXCEPT !.pc = "sched", !.i = i, !.k = k]
    ELSE LET j == FirstWithEvents(p.items, engine, p.today, i + 1) IN
         IF j <= Len(p.items) /\ i <= Len(p.items)
         THEN [p EXCEPT !.pc = "sched", !.i = j, !.k = 1]
         ELSE DonePass([p EXCEPT !.i = Len(p.items) + 1, !.k = 0], "complete")

\* Mutant of PassCancelOk: the call goes on without the cancel taking effect.
PassCancelOkKeeps(c) ==
    /\ ~Settling
    /\ passes[c].pc = "cancel"
    /\ passes' = [passes EXCEPT ![c].pc = "perm"]
    /\ toast' = <<>>
    /\ UNCHANGED <<now, engine, platform, permission, isAuthenticated,
                   pantryItems, pantryLoading, editingItem, remote, nextId,
                   loadOp, addOp, updateOp, deleteOp, scheduled, delivered,
                   started>>

\* Line 115 resolves: every scheduled reminder is dropped.
PassCancelOk(c) ==
    /\ ~Settling
    /\ passes[c].pc = "cancel"
    /\ scheduled' = EmptyBag
    /\ passes' = [passes EXCEPT ![c].pc = "perm",
                                ![c].dropped = BagCardinality(scheduled)]
    /\ toast' = <<>>
    /\ UNCHANGED started
    /\ UNCHANGED <<now, engine, platform, permission, isAuthenticated,
                   pantryItems, pantryLoading, editingItem, remote, nextId,
                   loadOp, addOp, updateOp, deleteOp, delivered>>

\* Mutant of PassCancelFail: the failure is swallowed and the call goes on to
\* the permission check.
PassCancelFailGoesOn(c) ==
    /\ ~Settling
    /\ passes[c].pc = "cancel"
    /\ passes' = [passes EXCEPT ![c].pc = "perm"]
    /\ toast' = <<>>
    /\ UNCHANGED started
    /\ UNCHANGED <<now, engine, platform, permission, isAuthenticated,
                   pantryItems, pantryLoading, editingItem, remote, nextId,
                   loadOp, addOp, updateOp, deleteOp, scheduled, delivered>>

\* Line 115 rejects: the outer catch (217-219) ends the call.
PassCancelFail(c) ==
    /\ ~Settling
    /\ passes[c].pc = "cancel"
    /\ passes' = [passes EXCEPT ![c] = DonePass(@, "cancelFailed")]
    /\ toast' = <<>>
    /\ UNCHANGED started
    /\ UNCHANGED <<now, engine, platform, permission, isAuthenticated,
                   pantryItems, pantryLoading, editingItem, remote, nextId,
                   loadOp, addOp, updateOp, deleteOp, scheduled, delivered>>

\* Lines 117-125: permission answered (never granted on the web, 17-19);
\* today is read; the loop runs to its first scheduleNotificationAsync call.
PassPermission(c) ==
    /\ ~Settling
    /\ passes[c].pc = "perm"
    /\ \E p \in {[passes[c] EXCEPT !.today = StartOfDay(now)]} :
       \E i \in {FirstWithEvents(p.items, engine, p.today, 1)} :
          passes' = [passes EXCEPT ![c] =
             IF permission /\ platform # "web"
             THEN ResumeLoop(p, i, 1) ELSE DonePass(@, "denied")]
    /\ toast' = <<>>
    /\ UNCHANGED started
    /\ UNCHANGED <<now, engine, platform, permission, isAuthenticated,
                   pantryItems, pantryLoading, editingItem, remote, nextId,
                   loadOp, addOp, updateOp, deleteOp, scheduled, delivered>>

CurrentEvent(p) == ItemEvents(p.items[p.i], engine, p.today)[p.k]

\* Notifications presented at once are counted up to MaxDelivered.
Deliver(bag, e) ==
    IF CopiesIn(e, bag) < MaxDelivered THEN bag (+) SetToBag({e}) ELSE bag

\* A scheduleNotificationAsync call resolves: the subsystem holds the reminder
\* (or presents it, for trigger null) and the loop goes on.
PassScheduleOk(c) ==
    /\ ~Settling
    /\ passes[c].pc = "sched"
    /\ \E p \in {passes[c]} : \E e \in {CurrentEvent(passes[c])} :
          /\ IF e.fireAt = Immediate
             THEN /\ delivered' = Deliver(delivered, e)
                  /\ UNCHANGED scheduled
             ELSE /\ scheduled' = scheduled (+) SetToBag({e})
                  /\ UNCHANGED delivered
          /\ passes' = [passes EXCEPT ![c] =
                ResumeLoop([p EXCEPT !.sent = Append(@, e)], p.i, p.k + 1)]
    /\ toast' = <<>>
    /\ UNCHANGED started
    /\ UNCHANGED <<now, engine, platform, permission, isAuthenticated,
                   pantryItems, pantryLoading, editingItem, remote, nextId,
                   loadOp, addOp, updateOp, deleteOp>>

\* A scheduleNotificationAsync call rejects: the catch of lines 213-215 logs
\* it and the loop goes on with the next item.
PassScheduleFail(c) ==
    /\ ~Settling
    /\ passes[c].pc = "sched"
    /\ LET p == passes[c]
       IN passes' = [passes EXCEPT ![c] =
             ResumeLoop([p EXCEPT !.failed = TRUE], p.i,
                        Len(ItemEvents(p.items[p.i], engine, p.today)) + 1)]
    /\ toast' = <<>>
    /\ UNCHANGED started
    /\ UNCHANGED <<now, engine, platform, permission, isAuthenticated,
                   pantryItems, pantryLoading, editingItem, remote, nextId,
                   loadOp, addOp, updateOp, deleteOp, scheduled, delivered>>

(***************************************************************************)
(* Items, the remote store and the handlers of App.js                      *)
(***************************************************************************)
Item(id, expiry, status) == [id |-> id, expiry_date |-> expiry, status |-> status]
NoItem == Item("", EmptyStr, "none")                       \* null / undefined

\* aiService: {...data, id: String(data.id)}; the status the server sends is
\* replaced by checkAndUpdateExpiryStatus before the item is stored.
FromServer(r) == Item(ToString(r.id), r.expiry_date, "server")

ServerItems(rs) == [i \in 1..Len(rs) |-> FromServer(rs[i])]

IdSet(items) == {items[i].id : i \in 1..Len(items)}
RemoteIds == {ToString(remote[i].id) : i \in 1..Len(remote)}

\* items.filter(it => it.id !== itemId)
RECURSIVE FilterOut(_, _)
FilterOut(items, itemId) ==
    IF Len(items) = 0 THEN <<>>
    ELSE IF items[1].id = itemId THEN FilterOut(Tail(items), itemId)
    ELSE <<items[1]>> \o FilterOut(Tail(items), itemId)

\* items.find(i => i.id === itemId)
RECURSIVE Find(_, _)
Find(items, itemId) ==
    IF Len(items) = 0 THEN NoItem
    ELSE IF items[1].id = itemId THEN items[1]
    ELSE Find(Tail(items), itemId)

\* items.map(item => item.id === id ? replacement : item)
ReplaceById(items, id, replacement) ==
    [i \in 1..Len(items) |-> IF items[i].id = id THEN replacement ELSE items[i]]

RemoteWithout(rs, id) == SelectSeq(rs, LAMBDA r : ToString(r.id) # id)
RemoteReplace(rs, id, expiry) ==
    [i \in 1..Len(rs) |->
        IF ToString(rs[i].id) = id THEN [rs[i] EXCEPT !.expiry_date = expiry]
        ELSE rs[i]]

IdleOp == [pc |-> "idle", closure |-> <<>>, item |-> NoItem, input |-> EmptyStr]

\* No handler is suspended and no reminder pass is running.
Quiet ==
    /\ loadOp.pc = "idle" /\ addOp.pc = "idle"
    /\ updateOp.pc = "idle" /\ deleteOp.pc = "idle"
    /\ \A c \in Callers : PassFree(c)

\* The model follows a run through its first MaxOps handler invocations.
MayStart == started < MaxOps

---------------------------------------------------------------------------
\* handleLogin / handleSignUp (89-113) up to the await inside loadPantry (50).
Login ==
    /\ ~Settling
    /\ MayStart
    /\ ~isAuthenticated
    /\ loadOp.pc = "idle"
    /\ isAuthenticated' = TRUE
    /\ pantryLoading' = TRUE
    /\ loadOp' = [IdleOp EXCEPT !.pc = "fetch"]
    /\ toast' = <<>>
    /\ started' = started + 1
    /\ UNCHANGED <<now, engine, platform, permission, pantryItems, editingItem,
                   remote, nextId, addOp, updateOp, deleteOp, passes, scheduled,
                   delivered>>

\* Mutant of LoadFetched: the fetched items are added to the collection.
LoadFetchedMerges ==
    /\ ~Settling
    /\ loadOp.pc = "fetch"
    /\ LET itemsWithStatus ==
               checkAndUpdateExpiryStatus(pantryItems \o ServerItems(remote),
                                          engine, StartOfDay(now))
       IN /\ pantryItems' = itemsWithStatus
          /\ passes' = [passes EXCEPT !["load"] = StartPass(itemsWithStatus, platform)]
    /\ loadOp' = [loadOp EXCEPT !.pc = "sched"]
    /\ toast' = <<>>
    /\ UNCHANGED started
    /\ UNCHANGED <<now, engine, platform, permission, isAuthenticated,
                   pantryLoading, editingItem, remote, nextId, addOp, updateOp,
                   deleteOp, scheduled, delivered>>

\* fetchPantryItems resolves: lines 52-56 up to the await of the reminder pass.
LoadFetched ==
    /\ ~Settling
    /\ loadOp.pc = "fetch"
    /\ LET itemsWithStatus ==
               checkAndUpdateExpiryStatus(ServerItems(remote), engine, StartOfDay(now))
       IN /\ pantryItems' = itemsWithStatus
          /\ passes' = [passes EXCEPT !["load"] = StartPass(itemsWithStatus, platform)]
    /\ loadOp' = [loadOp EXCEPT !.pc = "sched"]
    /\ toast' = <<>>
    /\ UNCHANGED started
    /\ UNCHANGED <<now, engine, platform, permission, isAuthenticated,
                   pantryLoading, editingItem, remote, nextId, addOp, updateOp,
                   deleteOp, scheduled, delivered>>

\* Mutant of LoadFailed: the failure path leaves without the finally block.
LoadFailedNoFinally ==
    /\ ~Settling
    /\ loadOp.pc = "fetch"
    /\ toast' = <<"Pantry Error", "Welcome">>
    /\ UNCHANGED started
    /\ loadOp' = IdleOp
    /\ UNCHANGED <<now, engine, platform, permission, isAuthenticated,
                   pantryItems, pantryLoading, editingItem, remote, nextId,
                   addOp, updateOp, deleteOp, passes, scheduled, delivered>>

\* fetchPantryItems rejects: catch and finally of loadPantry (57-66), then the
\* toast of the login handler (95).
LoadFailed ==
    /\ ~Settling
    /\ loadOp.pc = "fetch"
    /\ toast' = <<"Pantry Error", "Welcome">>
    /\ UNCHANGED started
    /\ pantryLoading' = FALSE
    /\ loadOp' = IdleOp
    /\ UNCHANGED <<now, engine, platform, permission, isAuthenticated,
                   pantryItems, editingItem, remote, nextId, addOp, updateOp,
                   deleteOp, passes, scheduled, delivered>>

\* The reminder pass of loadPantry has settled: finally (65), then line 95.
LoadDone ==
    /\ loadOp.pc = "sched"
    /\ passes["load"].pc = "done"
    /\ passes' = [passes EXCEPT !["load"] = NoPass]
    /\ toast' = <<"Welcome">>
    /\ UNCHANGED started
    /\ pantryLoading' = FALSE
    /\ loadOp' = IdleOp
    /\ UNCHANGED <<now, engine, platform, permission, isAuthenticated,
                   pantryItems, editingItem, remote, nextId, addOp, updateOp,
                   deleteOp, scheduled, delivered>>

\* handleLogout (115-126)
Logout ==
    /\ ~Settling
    /\ isAuthenticated
    /\ isAuthenticated' = FALSE
    /\ toast' = <<"Signed Out">>
    /\ UNCHANGED started
    /\ UNCHANGED <<now, engine, platform, permission, pantryItems,
                   pantryLoading, editingItem, remote, nextId, loadOp, addOp,
                   updateOp, deleteOp, passes, scheduled, delivered>>

---------------------------------------------------------------------------
\* Mutant of AddStart: the new item is shown before the server has answered.
AddStartOptimistic(expiry) ==
    /\ ~Settling
    /\ MayStart
    /\ isAuthenticated
    /\ addOp.pc = "idle"
    /\ pantryLoading' = TRUE
    /\ pantryItems' = Append(pantryItems, Item("pending", expiry, "fresh"))
    /\ addOp' = [IdleOp EXCEPT !.pc = "create", !.closure = pantryItems,
                               !.input = expiry]
    /\ toast' = <<>>
    /\ started' = started + 1
    /\ UNCHANGED <<now, engine, platform, permission, isAuthenticated,
                   editingItem, remote, nextId, loadOp, updateOp,
                   deleteOp, passes, scheduled, delivered>>

\* handleAddItem (128-132) up to the await of createPantryItem. The handler
\* closes over the pantryItems of the render it was created in.
AddStart(expiry) ==
    /\ ~Settling
    /\ MayStart
    /\ isAuthenticated
    /\ addOp.pc = "idle"
    /\ pantryLoading' = TRUE
    /\ addOp' = [IdleOp EXCEPT !.pc = "create", !.closure = pantryItems,
                               !.input = expiry]
    /\ toast' = <<>>
    /\ started' = started + 1
    /\ UNCHANGED <<now, engine, platform, permission, isAuthenticated,
                   pantryItems, editingItem, remote, nextId, loadOp, updateOp,
                   deleteOp, passes, scheduled, delivered>>

\* Mutant of AddCreated: the merged collection is stored without reclassifying.
AddCreatedNoReclassify ==
    /\ ~Settling
    /\ addOp.pc = "create"
    /\ LET data == [id |-> nextId, expiry_date |-> addOp.input]
           created == FromServer(data)
           updatedItems == Append(addOp.closure, created)
       IN /\ remote' = Append(remote, data)
          /\ nextId' = nextId + 1
          /\ pantryItems' = updatedItems
          /\ passes' = [passes EXCEPT !["add"] = StartPass(updatedItems, platform)]
    /\ addOp' = [addOp EXCEPT !.pc = "sched"]
    /\ toast' = <<>>
    /\ UNCHANGED started
    /\ UNCHANGED <<now, engine, platform, permission, isAuthenticated,
                   pantryLoading, editingItem, loadOp, updateOp, deleteOp,
                   scheduled, delivered>>

\* createPantryItem resolves: lines 133-138.
AddCreated ==
    /\ ~Settling
    /\ addOp.pc = "create"
    /\ LET data == [id |-> nextId, expiry_date |-> addOp.input]
           created == FromServer(data)
           updatedItems == Append(addOp.closure, created)
           itemsWithStatus == checkAndUpdateExpiryStatus(updatedItems, engine, StartOfDay(now))
       IN /\ remote' = Append(remote, data)
          /\ nextId' = nextId + 1
          /\ pantryItems' = itemsWithStatus
          /\ passes' = [passes EXCEPT !["add"] = StartPass(itemsWithStatus, platform)]
    /\ addOp' = [addOp EXCEPT !.pc = "sched"]
    /\ toast' = <<>>
    /\ UNCHANGED started
    /\ UNCHANGED <<now, engine, platform, permission, isAuthenticated,
                   pantryLoading, editingItem, loadOp, updateOp, deleteOp,
                   scheduled, delivered>>

\* createPantryItem rejects: catch and finally (145-154).
AddFailed ==
    /\ ~Settling
    /\ addOp.pc = "create"
    /\ toast' = <<"Add Failed">>
    /\ UNCHANGED started
    /\ pantryLoading' = FALSE
    /\ addOp' = IdleOp
    /\ UNCHANGED <<now, engine, platform, permission, isAuthenticated,
                   pantryItems, editingItem, remote, nextId, loadOp, updateOp,
                   deleteOp, passes, scheduled, delivered>>

\* The reminder pass of handleAddItem has settled: lines 139-144, 153.
AddDone ==
    /\ addOp.pc = "sched"
    /\ passes["add"].pc = "done"
    /\ passes' = [passes EXCEPT !["add"] = NoPass]
    /\ toast' = <<"Item Added">>
    /\ UNCHANGED started
    /\ pantryLoading' = FALSE
    /\ addOp' = IdleOp
    /\ UNCHANGED <<now, engine, platform, permission, isAuthenticated,
                   pantryItems, editingItem, remote, nextId, loadOp, updateOp,
                   deleteOp, scheduled, delivered>>

---------------------------------------------------------------------------
\* handleEditItem (157-160)
EditItem(i) ==
    /\ ~Settling
    /\ isAuthenticated
    /\ i \in 1..Len(pantryItems)
    /\ editingItem # pantryItems[i]
    /\ editingItem' = pantryItems[i]
    /\ toast' = <<>>
    /\ UNCHANGED started
    /\ UNCHANGED <<now, engine, platform, permission, isAuthenticated,
                   pantryItems, pantryLoading, remote, nextId, loadOp, addOp,
                   updateOp, deleteOp, passes, scheduled, delivered>>

\* handleUpdateItem (162-167) up to the await of updatePantryItem; with no
\* item being edited the handler returns at line 163.
UpdateStart(expiry) ==
    /\ ~Settling
    /\ MayStart
    /\ isAuthenticated
    /\ updateOp.pc = "idle"
    /\ IF editingItem = NoItem
       THEN UNCHANGED <<pantryLoading, updateOp>>
       ELSE /\ pantryLoading' = TRUE
            /\ updateOp' = [IdleOp EXCEPT !.pc = "update", !.closure = pantryItems,
                                          !.item = editingItem, !.input = expiry]
    /\ toast' = <<>>
    /\ started' = started + 1
    /\ UNCHANGED <<now, engine, platform, permission, isAuthenticated,
                   pantryItems, editingItem, remote, nextId, loadOp, addOp,
                   deleteOp, passes, scheduled, delivered>>

\* Mutant of UpdateSaved: the item at the head of the list is replaced,
\* whatever its id.
UpdateSavedAtHead ==
    /\ ~Settling
    /\ updateOp.pc = "update"
    /\ updateOp.item.id \in RemoteIds
    /\ LET updated == Item(updateOp.item.id, updateOp.input, "server")
           itemsWithStatus ==
               checkAndUpdateExpiryStatus(
                   [i \in 1..Len(updateOp.closure) |->
                       IF i = 1 THEN updated ELSE updateOp.closure[i]],
                   engine, StartOfDay(now))
       IN /\ remote' = RemoteReplace(remote, updateOp.item.id, updateOp.input)
          /\ pantryItems' = itemsWithStatus
          /\ passes' = [passes EXCEPT !["update"] = StartPass(itemsWithStatus, platform)]
    /\ updateOp' = [updateOp EXCEPT !.pc = "sched"]
    /\ toast' = <<>>
    /\ UNCHANGED started
    /\ UNCHANGED <<now, engine, platform, permission, isAuthenticated,
                   pantryLoading, editingItem, nextId, loadOp, addOp, deleteOp,
                   scheduled, delivered>>

\* updatePantryItem resolves: lines 168-176. The functional update of 168-170
\* and the plain update of 175 are queued in the same synchronous block; the
\* plain one is applied last and decides the state.
UpdateSaved ==
    /\ ~Settling
    /\ updateOp.pc = "update"
    /\ updateOp.item.id \in RemoteIds
    /\ LET updated == Item(updateOp.item.id, updateOp.input, "server")
           itemsWithStatus ==
               checkAndUpdateExpiryStatus(
                   ReplaceById(updateOp.closure, updateOp.item.id, updated),
                   engine, StartOfDay(now))
       IN /\ remote' = RemoteReplace(remote, updateOp.item.id, updateOp.input)
          /\ pantryItems' = itemsWithStatus
          /\ passes' = [passes EXCEPT !["update"] = StartPass(itemsWithStatus, platform)]
    /\ updateOp' = [updateOp EXCEPT !.pc = "sched"]
    /\ toast' = <<>>
    /\ UNCHANGED started
    /\ UNCHANGED <<now, engine, platform, permission, isAuthenticated,
                   pantryLoading, editingItem, nextId, loadOp, addOp, deleteOp,
                   scheduled, delivered>>

\* updatePantryItem rejects: catch and finally (184-193).
UpdateFailed ==
    /\ ~Settling
    /\ updateOp.pc = "update"
    /\ toast' = <<"Update Failed">>
    /\ UNCHANGED started
    /\ pantryLoading' = FALSE
    /\ updateOp' = IdleOp
    /\ UNCHANGED <<now, engine, platform, permission, isAuthenticated,
                   pantryItems, editingItem, remote, nextId, loadOp, addOp,
                   deleteOp, passes, scheduled, delivered>>

\* The reminder pass of handleUpdateItem has settled: lines 177-183, 192.
UpdateDone ==
    /\ updateOp.pc = "sched"
    /\ passes["update"].pc = "done"
    /\ passes' = [passes EXCEPT !["update"] = NoPass]
    /\ editingItem' = NoItem
    /\ toast' = <<"Item Updated">>
    /\ UNCHANGED started
    /\ pantryLoading' = FALSE
    /\ updateOp' = IdleOp
    /\ UNCHANGED <<now, engine, platform, permission, isAuthenticated,
                   pantryItems, remote, nextId, loadOp, addOp, deleteOp,
                   scheduled, delivered>>

---------------------------------------------------------------------------
\* Mutant of DeleteStart: the item stays in the list until the server answers.
DeleteStartKeepsItem(i) ==
    /\ ~Settling
    /\ MayStart
    /\ isAuthenticated
    /\ deleteOp.pc = "idle"
    /\ i \in 1..Len(pantryItems)
    /\ LET itemId == pantryItems[i].id
       IN deleteOp' = [IdleOp EXCEPT !.pc = "delete",
                                     !.closure = pantryItems,
                                     !.item = Find(pantryItems, itemId)]
    /\ toast' = <<>>
    /\ started' = started + 1
    /\ UNCHANGED <<now, engine, platform, permission, isAuthenticated,
                   pantryItems, pantryLoading, editingItem, remote, nextId,
                   loadOp, addOp, updateOp, passes, scheduled, delivered>>

\* handleDeleteItem (196-201) up to the await of deletePantryItem, for the
\* item shown at position i of the list.
DeleteStart(i) ==
    /\ ~Settling
    /\ MayStart
    /\ isAuthenticated
    /\ deleteOp.pc = "idle"
    /\ i \in 1..Len(pantryItems)
    /\ LET itemId == pantryItems[i].id
       IN /\ deleteOp' = [IdleOp EXCEPT !.pc = "delete",
                                        !.closure = pantryItems,
                                        !.item = Find(pantryItems, itemId)]
          /\ pantryItems' = FilterOut(pantryItems, itemId)
    /\ toast' = <<>>
    /\ started' = started + 1
    /\ UNCHANGED <<now, engine, platform, permission, isAuthenticated,
                   pantryLoading, editingItem, remote, nextId, loadOp, addOp,
                   updateOp, passes, scheduled, delivered>>

\* deletePantryItem resolves: lines 202-206.
DeleteConfirmed ==
    /\ ~Settling
    /\ deleteOp.pc = "delete"
    /\ deleteOp.item.id \in RemoteIds
    /\ remote' = RemoteWithout(remote, deleteOp.item.id)
    /\ toast' = <<"Item Deleted">>
    /\ UNCHANGED started
    /\ deleteOp' = IdleOp
    /\ UNCHANGED <<now, engine, platform, permission, isAuthenticated,
                   pantryItems, pantryLoading, editingItem, nextId, loadOp,
                   addOp, updateOp, passes, scheduled, delivered>>

\* Mutant of DeleteFailed: the removed item is not put back.
DeleteFailedNoRollback ==
    /\ ~Settling
    /\ deleteOp.pc = "delete"
    /\ toast' = <<"Delete Failed">>
    /\ deleteOp' = IdleOp
    /\ UNCHANGED <<now, engine, platform, permission, isAuthenticated,
                   pantryItems, pantryLoading, editingItem, remote, nextId,
                   loadOp, addOp, updateOp, passes, scheduled, delivered,
                   started>>

\* deletePantryItem rejects: the rollback of lines 207-215.
DeleteFailed ==
    /\ ~Settling
    /\ deleteOp.pc = "delete"
    /\ pantryItems' = SelectSeq(Append(pantryItems, deleteOp.item),
                                LAMBDA it : it # NoItem)
    /\ toast' = <<"Delete Failed">>
    /\ UNCHANGED started
    /\ deleteOp' = IdleOp
    /\ UNCHANGED <<now, engine, platform, permission, isAuthenticated,
                   pantryLoading, editingItem, remote, nextId, loadOp, addOp,
                   updateOp, passes, scheduled, delivered>>

---------------------------------------------------------------------------
\* Mutant of PeriodicCheck: the scheduling call is given the collection as it
\* was before the reclassification.
PeriodicCheckStalePass(c) ==
    /\ ~Settling
    /\ MayStart
    /\ isAuthenticated
    /\ PassFree(c)
    /\ LET updatedItems == checkAndUpdateExpiryStatus(pantryItems, engine, StartOfDay(now))
       IN /\ pantryItems' = updatedItems
          /\ passes' = [passes EXCEPT ![c] = StartPass(pantryItems, platform)]
    /\ toast' = <<>>
    /\ started' = started + 1
    /\ UNCHANGED <<now, engine, platform, permission, isAuthenticated,
                   pantryLoading, editingItem, remote, nextId, loadOp, addOp,
                   updateOp, deleteOp, scheduled, delivered>>

\* The interval callback (249-256) and the AppState listener (259-267): both
\* are registered only while isAuthenticated (247).
PeriodicCheck(c) ==
    /\ ~Settling
    /\ MayStart
    /\ isAuthenticated
    /\ PassFree(c)
    /\ LET updatedItems == checkAndUpdateExpiryStatus(pantryItems, engine, StartOfDay(now))
       IN /\ pantryItems' = updatedItems
          /\ passes' = [passes EXCEPT ![c] = StartPass(updatedItems, platform)]
    /\ toast' = <<>>
    /\ started' = started + 1
    /\ UNCHANGED <<now, engine, platform, permission, isAuthenticated,
                   pantryLoading, editingItem, remote, nextId, loadOp, addOp,
                   updateOp, deleteOp, scheduled, delivered>>

Tick == PeriodicCheck("tick")
ForegroundResume == PeriodicCheck("resume")

\* The promise of a call made by the periodic check settles; nobody awaits it
\* (253, 263).
PassSettle(c) ==
    /\ c \in {"tick", "resume"}
    /\ passes[c].pc = "done"
    /\ passes' = [passes EXCEPT ![c] = NoPass]
    /\ toast' = <<>>
    /\ UNCHANGED started
    /\ UNCHANGED <<now, engine, platform, permission, isAuthenticated,
                   pantryItems, pantryLoading, editingItem, remote, nextId,
                   loadOp, addOp, updateOp, deleteOp, scheduled, delivered>>

---------------------------------------------------------------------------
\* The environment: time passes; the user grants or revokes the permission.
BaseDay == MakeDate(2025, 10, 28)                           \* Nov 28, 2025
ClockTicks(t) == 2 * (t.day - BaseDay) + (IF t.hour >= 9 THEN 1 ELSE 0)

AdvanceClock ==
    /\ ~Settling
    /\ ClockTicks(now) < MaxClock
    /\ now' = IF now.hour < 9 THEN [now EXCEPT !.hour = 10]
              ELSE [day |-> now.day + 1, hour |-> 8]
    /\ toast' = <<>>
    /\ UNCHANGED started
    /\ UNCHANGED <<engine, platform, permission, isAuthenticated, pantryItems,
                   pantryLoading, editingItem, remote, nextId, loadOp, addOp,
                   updateOp, deleteOp, passes, scheduled, delivered>>

TogglePermission ==
    /\ ~Settling
    /\ platform # "web"
    /\ permission' = ~permission
    /\ toast' = <<>>
    /\ UNCHANGED started
    /\ UNCHANGED <<now, engine, platform, isAuthenticated, pantryItems,
                   pantryLoading, editingItem, remote, nextId, loadOp, addOp,
                   updateOp, deleteOp, passes, scheduled, delivered>>

(***************************************************************************)
(* Expiry strings the runs draw from. BaseDay is Friday Nov 28, 2025.      *)
(***************************************************************************)
Nov(d) == Str("text", 11, d, 2025)                  \* "Nov 28, 2025"
Dec(d) == Str("text", 12, d, 2025)                  \* "Dec 3, 2025"
Numeric(a, b, c) == Str("numeric", a, b, c)         \* "28/11/2025"

TextStrs == {Nov(d) : d \in 22..30} \cup {Dec(d) : d \in 1..8}

NumericStrs ==
    {Numeric(d, 11, 2025) : d \in 22..30}           \* day-first, day above 12
    \cup {Numeric(d, 12, 2025) : d \in 1..8}        \* day-first, day up to 12
    \cup {Numeric(11, 30, 2025), Numeric(12, 2, 2025),   \* written month-first
          Numeric(13, 45, 2025), Numeric(30, 11, 25)}    \* out of range; 2-digit year

WideStrs == TextStrs \cup NumericStrs \cup {EmptyStr, JunkStr, Junk3Str}

NarrowStrs == {Nov(28), Dec(3)}

Times == {t \in [day : BaseDay..(BaseDay + MaxClock), hour : {8, 10}] :
              ClockTicks(t) <= MaxClock}

RemoteItem(id, expiry) == [id |-> id, expiry_date |-> expiry]

(***************************************************************************)
(* Initial states: the app has just started (App.js:33-39, mockData.js:5). *)
(***************************************************************************)
InitCore ==
    /\ isAuthenticated = FALSE
    /\ pantryItems = <<>>
    /\ pantryLoading = FALSE
    /\ editingItem = NoItem
    /\ nextId = Len(remote) + 1
    /\ loadOp = IdleOp /\ addOp = IdleOp /\ updateOp = IdleOp /\ deleteOp = IdleOp
    /\ passes = [c \in Callers |-> NoPass]
    /\ scheduled = EmptyBag
    /\ delivered = EmptyBag
    /\ toast = <<>>
    /\ started = 0

\* The app in a browser (no notification subsystem), over a store that holds
\* at most one item at start.
Init ==
    /\ now = [day |-> BaseDay, hour |-> 8]
    /\ engine = "legacy"
    /\ platform = "web"
    /\ permission = FALSE
    /\ remote \in {<<>>} \cup {<<RemoteItem(1, s)>> : s \in NarrowStrs}
    /\ InitCore

\* The app on a phone or in a browser, over the same store.
InitSeq ==
    /\ now = [day |-> BaseDay, hour |-> 8]
    /\ engine = "legacy"
    /\ platform \in {"web", "native"}
    /\ permission \in BOOLEAN
    /\ remote \in {<<>>} \cup {<<RemoteItem(1, s)>> : s \in NarrowStrs}
    /\ InitCore

\* A store that holds one item with any expiry string, or two items.
InitWide ==
    /\ now = [day |-> BaseDay, hour |-> 8]
    /\ engine \in {"legacy", "strict"}
    /\ platform = "native"
    /\ permission \in BOOLEAN
    /\ remote \in {<<RemoteItem(1, s)>> : s \in WideStrs}
             \cup {<<RemoteItem(1, Dec(3)), RemoteItem(2, s)>> : s \in NarrowStrs}
    /\ InitCore

\* The classifier at a fixed instant, on a platform without notifications.
InitClassify ==
    /\ now \in Times
    /\ engine \in {"legacy", "strict"}
    /\ platform = "web"
    /\ permission = FALSE
    /\ remote \in {<<RemoteItem(1, s)>> : s \in WideStrs}
    /\ InitCore

(***************************************************************************)
(* Next-state relations                                                    *)
(***************************************************************************)
\* The app in a browser, every handler free to start while others are
\* suspended.
Next ==
    \/ Login \/ LoadFetched \/ LoadFailed \/ LoadDone \/ Logout
    \/ \E s \in NarrowStrs : AddStart(s)
    \/ AddCreated \/ AddFailed \/ AddDone
    \/ \E i \in 1..Len(pantryItems) : EditItem(i)
    \/ \E s \in NarrowStrs : UpdateStart(s)
    \/ UpdateSaved \/ UpdateFailed \/ UpdateDone
    \/ \E i \in 1..Len(pantryItems) : DeleteStart(i)
    \/ DeleteConfirmed \/ DeleteFailed
    \/ Tick \/ ForegroundResume
    \/ \E c \in Callers : PassSettle(c)
    \/ AdvanceClock

Spec == Init /\ [][Next]_vars

\* The app used one operation at a time: a handler or a periodic check starts
\* only when nothing else is in flight. The notification subsystem accepts
\* every request.
NextSeq ==
    \/ (Quiet /\ Login) \/ LoadFetched \/ LoadFailed \/ LoadDone \/ Logout
    \/ (Quiet /\ \E s \in NarrowStrs : AddStart(s))
    \/ AddCreated \/ AddFailed \/ AddDone
    \/ \E i \in 1..Len(pantryItems) : EditItem(i)
    \/ (Quiet /\ \E s \in NarrowStrs : UpdateStart(s))
    \/ UpdateSaved \/ UpdateFailed \/ UpdateDone
    \/ (Quiet /\ \E i \in 1..Len(pantryItems) : DeleteStart(i))
    \/ DeleteConfirmed \/ DeleteFailed
    \/ (Quiet /\ Tick) \/ (Quiet /\ ForegroundResume)
    \/ \E c \in Callers :
          \/ PassCancelOk(c) \/ PassPermission(c)
          \/ PassScheduleOk(c) \/ PassSettle(c)
    \/ AdvanceClock

SpecSeq == InitSeq /\ [][NextSeq]_vars

\* A signed-in session in which only the periodic check and the foreground
\* listener act, one reminder pass at a time.
NextPass ==
    \/ (Quiet /\ Login) \/ LoadFetched \/ LoadFailed \/ LoadDone
    \/ (Quiet /\ Tick) \/ (Quiet /\ ForegroundResume)
    \/ \E c \in Callers :
          \/ PassCancelOk(c) \/ PassCancelFail(c) \/ PassPermission(c)
          \/ PassScheduleOk(c) \/ PassScheduleFail(c) \/ PassSettle(c)
    \/ AdvanceClock \/ TogglePermission

SpecPass == InitWide /\ [][NextPass]_vars

\* The same session with the two triggers of the periodic check free to
\* overlap once the load has settled, at a fixed instant; the notification
\* subsystem accepts every request.
NextOverlap ==
    \/ Login \/ LoadFetched \/ LoadFailed \/ LoadDone
    \/ (loadOp.pc = "idle" /\ Tick) \/ (loadOp.pc = "idle" /\ ForegroundResume)
    \/ \E c \in Callers :
          \/ PassCancelOk(c) \/ PassPermission(c)
          \/ PassScheduleOk(c) \/ PassSettle(c)

SpecOverlap == InitWide /\ [][NextOverlap]_vars

\* Classification alone: load and periodic checks at a fixed instant.
NextClassify ==
    \/ Login \/ LoadFetched \/ LoadFailed \/ LoadDone \/ Logout
    \/ Tick \/ ForegroundResume
    \/ \E c \in Callers : PassSettle(c)

SpecClassify == InitClassify /\ [][NextClassify]_vars

\* Editing sessions on a phone at a fixed instant: the store holds an item
\* ten days out and a second item; one handler runs at a time and the
\* notification subsystem accepts every request.
EditFromStrs == {Dec(8), Numeric(8, 12, 2025)}
EditOtherStrs == {Nov(27), Nov(28), Dec(3), JunkStr}
EditToStrs == {Nov(27), Numeric(27, 11, 2025), Dec(3)}

InitUpdate ==
    /\ now = [day |-> BaseDay, hour |-> 8]
    /\ engine \in {"legacy", "strict"}
    /\ platform = "native"
    /\ permission \in BOOLEAN
    /\ remote \in {<<RemoteItem(1, s), RemoteItem(2, t)>> :
                      s \in EditFromStrs, t \in EditOtherStrs}
                  \cup {<<RemoteItem(1, t), RemoteItem(2, s)>> :
                      s \in EditFromStrs, t \in EditOtherStrs}
    /\ InitCore

NextUpdate ==
    \/ (Quiet /\ Login) \/ LoadFetched \/ LoadFailed \/ LoadDone
    \/ \E i \in 1..Len(pantryItems) : EditItem(i)
    \/ (Quiet /\ \E s \in EditToStrs : UpdateStart(s))
    \/ UpdateSaved \/ UpdateFailed \/ UpdateDone
    \/ \E c \in Callers :
          PassCancelOk(c) \/ PassPermission(c) \/ PassScheduleOk(c)

SpecUpdate == InitUpdate /\ [][NextUpdate]_vars

\* Sessions on a phone in which every awaited call may fail: the remote store,
\* the cancel-all and each scheduling request; the permission is granted or
\* not. One handler runs at a time, at a fixed instant.
InitFail ==
    /\ now = [day |-> BaseDay, hour |-> 8]
    /\ engine = "legacy"
    /\ platform = "native"
    /\ permission \in BOOLEAN
    /\ remote \in {<<>>} \cup {<<RemoteItem(1, s)>> : s \in NarrowStrs}
    /\ InitCore

\* An awaited call settles and the code after the await runs.
Settle ==
    \/ LoadFetched \/ LoadFailed \/ LoadDone
    \/ AddCreated \/ AddFailed \/ AddDone
    \/ UpdateSaved \/ UpdateFailed \/ UpdateDone
    \/ DeleteConfirmed \/ DeleteFailed
    \/ \E c \in Callers :
          \/ PassCancelOk(c) \/ PassCancelFail(c) \/ PassPermission(c)
          \/ PassScheduleOk(c) \/ PassScheduleFail(c) \/ PassSettle(c)

NextFail ==
    \/ (Quiet /\ Login)
    \/ (Quiet /\ \E s \in NarrowStrs : AddStart(s))
    \/ \E i \in 1..Len(pantryItems) : EditItem(i)
    \/ (Quiet /\ \E s \in NarrowStrs : UpdateStart(s))
    \/ (Quiet /\ \E i \in 1..Len(pantryItems) : DeleteStart(i))
    \/ (Quiet /\ Tick) \/ (Quiet /\ ForegroundResume)
    \/ Settle

\* Every awaited call settles in the end, one way or the other.
SpecFail == InitFail /\ [][NextFail]_vars /\ WF_vars(Settle)

\* Classification of batches: the store holds two items whose expiry strings
\* are resolved, empty or unparseable in every combination; load and periodic
\* checks run at a fixed instant in a browser.
BatchStrs == {Nov(27), Nov(28), Dec(1), Dec(2), Dec(3), EmptyStr, JunkStr,
              Junk3Str, Numeric(30, 11, 2025), Numeric(12, 2, 2025)}

InitBatch ==
    /\ now \in Times
    /\ engine \in {"legacy", "strict"}
    /\ platform = "web"
    /\ permission = FALSE
    /\ remote \in {<<RemoteItem(1, s), RemoteItem(2, t)>> : s, t \in BatchStrs}
    /\ InitCore

SpecBatch == InitBatch /\ [][NextClassify]_vars

(***************************************************************************)
(* Properties.                                                             *)
(***************************************************************************)
Indices(items) == 1..Len(items)

\* The calendar day a day-first string D/M/Y names, for a four-digit year and
\* a day that exists in the month.
IsCalendarDayFirst(s) ==
    /\ s.form = "numeric"
    /\ s.t3 >= 1000
    /\ s.t2 \in 1..12
    /\ s.t1 \in 1..DaysInMonth(s.t3, s.t2)
CalendarDay(s) == MakeDate(s.t3, s.t2 - 1, s.t1)

\* The thresholds of the classification, written out.
ThresholdsHold(status, days) ==
    /\ days < 0 => status = "expired"
    /\ (days >= 0 /\ days <= 3) => status = "expiring"
    /\ days > 3 => status = "fresh"

\* C2: an item whose expiry string free-text parsing resolves to a date is
\* expired when the date is before today, expiring when it is 0 to 3 days
\* ahead, and fresh when it is more than 3 days ahead. (Strings that only the
\* day-first split resolves are the subject of C3.)
C2_Thresholds ==
    \A i \in Indices(pantryItems) :
        LET s == pantryItems[i].expiry_date
            d == NativeParse(s, engine)
        IN (s.form # "empty" /\ d # NaN)
               => ThresholdsHold(pantryItems[i].status, d - now.day)

\* An item exactly 3 days ahead is expiring, one 4 days ahead is fresh and one
\* a day behind is expired.
C2_Witness ==
    \E i \in Indices(pantryItems) :
        LET s == pantryItems[i].expiry_date
            d == NativeParse(s, engine)
        IN /\ s.form = "text"
           /\ d - now.day = 3
           /\ pantryItems[i].status = "expiring"

\* C3: an item whose expiry string is day-first numeric and is rejected by
\* free-text parsing carries the status of the calendar date (Y, M, D) it
\* names, the same as the textual form of that date.
C3_DayFirstClassified ==
    \A i \in Indices(pantryItems) :
        LET s == pantryItems[i].expiry_date IN
        (IsCalendarDayFirst(s) /\ NativeParse(s, engine) = NaN)
            => pantryItems[i].status = StatusOfDays(CalendarDay(s) - now.day)

\* C4: an item whose expiry string is empty, or fails both free-text parsing
\* and the day-first split, is fresh.
C4_UnresolvedIsFresh ==
    \A i \in Indices(pantryItems) :
        LET s == pantryItems[i].expiry_date IN
        (\/ s.form = "empty"
         \/ (NativeParse(s, engine) = NaN /\ DayFirstParse(s, NaN) = NaN))
            => pantryItems[i].status = "fresh"

\* A loaded item with an unparseable, non-empty expiry string is fresh.
C4_Witness ==
    \E i \in Indices(pantryItems) :
        LET s == pantryItems[i].expiry_date IN
        /\ s.form = "junk"
        /\ NativeParse(s, engine) = NaN /\ DayFirstParse(s, NaN) = NaN
        /\ pantryItems[i].status = "fresh"

\* A scheduling call that ran to the end with every request accepted.
Completed(p) == p.pc = "done" /\ p.result = "complete" /\ ~p.failed

\* The requests a call made for one item, in order.
SentFor(p, id) == SelectSeq(p.sent, LAMBDA e : e.id = id)

\* How many times a call requested a given reminder.
TimesSent(p, e) == Cardinality({k \in 1..Len(p.sent) : p.sent[k] = e})

Indicator(b) == IF b THEN 1 ELSE 0

\* C5: for an item whose expiry resolves to a date with daysUntilExpiry >= 0,
\* a completed call requests exactly: one T-0 reminder at 09:00 of the expiry
\* day; one T-1 reminder at 09:00 the day before iff daysUntilExpiry >= 1; one
\* T-3 reminder at 09:00 three days before iff daysUntilExpiry >= 3; and
\* nothing else.
C5_ReminderSeries ==
    \A c \in Callers :
        Completed(passes[c]) =>
            \A i \in Indices(passes[c].items) :
                LET p == passes[c]
                    item == p.items[i]
                    d == PlannerDate(item.expiry_date, engine)
                    days == d - p.today
                IN (item.expiry_date.form # "empty" /\ d # NaN /\ days >= 0) =>
                      /\ TimesSent(p, Event(item, "T-0", AtNine(d))) = 1
                      /\ TimesSent(p, Event(item, "T-1", AtNine(d - 1)))
                            = Indicator(days >= 1)
                      /\ TimesSent(p, Event(item, "T-3", AtNine(d - 3)))
                            = Indicator(days >= 3)
                      /\ Len(SentFor(p, item.id))
                            = 1 + Indicator(days >= 1) + Indicator(days >= 3)

\* A completed call for an item 5 days out made 3 requests, and the
\* subsystem holds them.
C5_Witness ==
    \E c \in Callers :
        /\ Completed(passes[c])
        /\ \E i \in Indices(passes[c].items) :
              LET p == passes[c]
                  item == p.items[i]
                  d == PlannerDate(item.expiry_date, engine)
              IN /\ item.expiry_date.form # "empty" /\ d # NaN
                 /\ d - p.today = 5
                 /\ Len(SentFor(p, item.id)) = 3
                 /\ BagIn(Event(item, "T-3", AtNine(d - 3)), scheduled)

\* C6: for an item that expired yesterday a completed call requests exactly
\* one immediate overdue reminder and nothing else; for an item whose expiry
\* is empty, unresolvable or more than a day past it requests nothing.
C6_Overdue ==
    \A c \in Callers :
        Completed(passes[c]) =>
            \A i \in Indices(passes[c].items) :
                LET p == passes[c]
                    item == p.items[i]
                    d == PlannerDate(item.expiry_date, engine)
                    unresolved == item.expiry_date.form = "empty" \/ d = NaN
                IN /\ (~unresolved /\ d - p.today = -1)
                        => SentFor(p, item.id) = <<Event(item, "overdue", Immediate)>>
                   /\ (unresolved \/ d - p.today < -1)
                        => SentFor(p, item.id) = <<>>

\* A completed call for an item that expired yesterday made the one overdue
\* request.
C6_Witness ==
    \E c \in Callers :
        /\ Completed(passes[c])
        /\ \E i \in Indices(passes[c].items) :
              LET p == passes[c]
                  item == p.items[i]
                  d == PlannerDate(item.expiry_date, engine)
              IN /\ item.expiry_date.form # "empty" /\ d # NaN
                 /\ d - p.today = -1
                 /\ SentFor(p, item.id) = <<Event(item, "overdue", Immediate)>>

\* C7: a scheduling call on a native platform begins with the cancel-all,
\* whose completion leaves no reminder scheduled; requests are made only
\* after the permission check found the permission granted; and a call that
\* ends because the permission is not granted has made no request and leaves
\* the scheduled set empty.
C7_CancelPermissionSchedule ==
    [][\A c \in Callers :
          /\ (passes[c].pc = "none" /\ passes'[c].pc # "none" /\ platform # "web")
                => passes'[c].pc = "cancel" /\ passes'[c].sent = <<>>
          /\ (passes[c].pc = "cancel" /\ passes'[c].pc = "perm")
                => scheduled' = EmptyBag
          /\ (passes[c].pc # "sched" /\ passes'[c].pc = "sched")
                => passes[c].pc = "perm" /\ permission
          /\ Len(passes'[c].sent) > Len(passes[c].sent)
                => passes[c].pc = "sched"
          /\ (passes[c].pc # "done" /\ passes'[c].pc = "done"
                /\ passes'[c].result = "denied")
                => /\ passes[c].pc = "perm" /\ ~permission
                   /\ passes'[c].sent = <<>>
                   /\ scheduled' = EmptyBag
      ]_vars

\* A call that dropped earlier reminders ended on the permission check and
\* left nothing scheduled.
C7_Witness ==
    \E c \in Callers :
        /\ passes[c].pc = "done" /\ passes[c].result = "denied"
        /\ passes[c].dropped > 0
        /\ scheduled = EmptyBag

\* C8: once no scheduling call is running, each (item, kind) reminder is
\* scheduled at most once, however the calls of the interval tick and of the
\* foreground transition overlapped.
C8_OverlapSchedulesOnce ==
    (\A c \in Callers : PassFree(c)) =>
        \A e1, e2 \in BagToSet(scheduled) :
            (e1.id = e2.id /\ e1.kind = e2.kind)
                => (e1 = e2 /\ CopiesIn(e1, scheduled) = 1)

\* C9: the completion of a create adds the created item to the collection as
\* it is at that moment, and the completion of an update keeps the collection's
\* items as they are at that moment: a removal or addition made while the
\* request was in flight is not undone.
C9_CompletionKeepsNewerState ==
    [][/\ (addOp.pc = "create" /\ addOp'.pc = "sched")
            => IdSet(pantryItems') = IdSet(pantryItems) \cup {ToString(nextId)}
       /\ (updateOp.pc = "update" /\ updateOp'.pc = "sched")
            => IdSet(pantryItems') = IdSet(pantryItems)
      ]_vars

\* C1: whenever a step changes the collection (load, create, update, delete,
\* rolled-back delete, periodic check), every item's status afterwards is
\* the classification of its expiry string on the current day.
C1_StatusCurrent ==
    [][pantryItems' # pantryItems =>
          \A i \in Indices(pantryItems') :
              pantryItems'[i].status =
                  calculateExpiryStatus(pantryItems'[i].expiry_date, engine, now'.day)
      ]_vars

\* C10: when the remote delete fails, the ids in the collection after the
\* rollback are the ids it held when the delete started.
C10_RollbackRestoresIds ==
    [][(deleteOp.pc = "delete" /\ deleteOp'.pc = "idle"
          /\ toast' = <<"Delete Failed">>)
          => IdSet(pantryItems') = IdSet(deleteOp.closure)
      ]_vars

\* A delete has just failed and the collection holds two items again.
C10_Witness ==
    /\ toast = <<"Delete Failed">>
    /\ deleteOp.pc = "idle"
    /\ Len(pantryItems) >= 2

\* C11: no two items of the collection have the same id.
C11_UniqueIds ==
    \A i, j \in Indices(pantryItems) :
        pantryItems[i].id = pantryItems[j].id => i = j

\* C12: when a delete whose remote call succeeded completes, the notification
\* subsystem holds no reminder for the deleted item.
C12_NoOrphanReminders ==
    [][(deleteOp.pc = "delete" /\ deleteOp'.pc = "idle"
          /\ toast' = <<"Item Deleted">>)
          => \A e \in BagToSet(scheduled') : e.id # deleteOp.item.id
      ]_vars

\* The events a call plans for the item it is working on.
PlannedHere(p) == ItemEvents(p.items[p.i], engine, p.today)

\* C13: when a request for one reminder is rejected, the call goes on with
\* the next planned event, the remaining events of the same item included,
\* and ends normally when none is left.
C13_FailureSkipsOnlyOneEvent ==
    [][\A c \in Callers :
          (passes[c].pc = "sched" /\ passes'[c] # passes[c]
             /\ passes'[c].sent = passes[c].sent)
          => IF passes[c].k < Len(PlannedHere(passes[c]))
             THEN /\ passes'[c].pc = "sched"
                  /\ passes'[c].i = passes[c].i
                  /\ passes'[c].k = passes[c].k + 1
             ELSE \/ passes'[c].pc = "sched" /\ passes'[c].i > passes[c].i
                  \/ passes'[c].pc = "done" /\ passes'[c].result = "complete"
      ]_vars

\* The reminders with a fire time among a sequence of events, as a bag.
RECURSIVE TimedBag(_)
TimedBag(events) ==
    IF events = <<>> THEN EmptyBag
    ELSE (IF Head(events).fireAt = Immediate THEN EmptyBag
          ELSE SetToBag({Head(events)})) (+) TimedBag(Tail(events))

\* The reminder set one call plans for a collection on a day.
RECURSIVE PlannedBag(_, _)
PlannedBag(items, today) ==
    IF items = <<>> THEN EmptyBag
    ELSE TimedBag(ItemEvents(Head(items), engine, today))
         (+) PlannedBag(Tail(items), today)

\* C14: whatever was scheduled before it, a call that ran to the end with
\* every request accepted leaves scheduled exactly the reminder set planned
\* for its collection and day; so a second call over the same collection on
\* the same day, started after the first has finished, leaves the set the
\* first one left.
C14_Idempotent ==
    \A c \in Callers :
        Completed(passes[c])
            => scheduled = PlannedBag(passes[c].items, passes[c].today)

\* A completed call that dropped as many reminders as it scheduled again.
C14_Witness ==
    \E c \in {"tick", "resume"} :
        /\ Completed(passes[c])
        /\ passes[c].dropped > 0
        /\ passes[c].dropped = BagCardinality(scheduled)
        /\ passes[c].items = pantryItems

\* The ids the server has assigned so far.
IssuedIds == {ToString(n) : n \in 1..(nextId - 1)}

\* C15: starting a create leaves the collection as it is, and the collection
\* never holds an item the server has not returned; when the remote create
\* fails the collection is unchanged, no scheduling call is started, nothing
\* is scheduled or cancelled, and the "Add Failed" toast is shown.
C15_CreateWaitsForServer ==
    [][/\ (addOp.pc = "idle" /\ addOp'.pc = "create")
            => pantryItems' = pantryItems
       /\ IdSet(pantryItems') \subseteq {ToString(n) : n \in 1..(nextId' - 1)}
       /\ (addOp.pc = "create" /\ addOp'.pc = "idle")
            => /\ pantryItems' = pantryItems
               /\ passes' = passes
               /\ scheduled' = scheduled
               /\ remote' = remote
               /\ toast' = <<"Add Failed">>
               /\ pantryLoading' = FALSE
      ]_vars

\* A create has just failed on a native platform with items in the collection.
C15_Witness ==
    /\ toast = <<"Add Failed">>
    /\ addOp.pc = "idle"
    /\ platform = "native"
    /\ pantryItems # <<>>
    /\ IdSet(pantryItems) \subseteq IssuedIds

\* C16: when the remote create succeeds with no other operation in flight,
\* the collection becomes the previous items in their order followed by the
\* returned item under its server-assigned id, every item carries the
\* classification of its expiry on the current day, and a scheduling call is
\* started over exactly that collection, with no request made before.
C16_CreateMergesThenReconciles ==
    [][(addOp.pc = "create" /\ addOp'.pc = "sched")
          => /\ Len(pantryItems') = Len(pantryItems) + 1
             /\ \A i \in Indices(pantryItems) :
                   /\ pantryItems'[i].id = pantryItems[i].id
                   /\ pantryItems'[i].expiry_date = pantryItems[i].expiry_date
             /\ pantryItems'[Len(pantryItems')].id = ToString(nextId)
             /\ pantryItems'[Len(pantryItems')].expiry_date = addOp.input
             /\ ToString(nextId) \in {ToString(remote'[k].id) : k \in 1..Len(remote')}
             /\ ToString(nextId) \notin IdSet(pantryItems)
             /\ \A i \in Indices(pantryItems') :
                   pantryItems'[i].status =
                       calculateExpiryStatus(pantryItems'[i].expiry_date,
                                             engine, now'.day)
             /\ passes'["add"].pc # "none"
             /\ passes'["add"].items = pantryItems'
             /\ passes'["add"].sent = <<>>
             /\ scheduled' = scheduled
      ]_vars

\* The create has returned on a native platform: the collection holds the
\* earlier item and the new one, and the scheduling call over it is at its
\* cancel-all.
C16_Witness ==
    /\ addOp.pc = "sched"
    /\ passes["add"].pc = "cancel"
    /\ passes["add"].items = pantryItems
    /\ Len(pantryItems) = 2
    /\ pantryItems[1].status = "expired"
    /\ pantryItems[2].id \in RemoteIds

\* C17: the step that starts an update leaves the collection alone, and does
\* nothing at all when no item is being edited; when the remote update
\* succeeds every position keeps its id, the positions whose id is not the
\* edited id keep their expiry, and the edited id carries the submitted
\* expiry; when the remote update fails the collection, the scheduling calls
\* and the scheduled set are unchanged.
C17_UpdateFrame ==
    [][/\ \A s \in NarrowStrs :
             UpdateStart(s) =>
                /\ pantryItems' = pantryItems
                /\ passes' = passes /\ scheduled' = scheduled
                /\ remote' = remote
                /\ editingItem = NoItem => updateOp' = updateOp
       /\ (updateOp.pc = "update" /\ updateOp'.pc = "sched")
            => /\ Len(pantryItems') = Len(pantryItems)
               /\ \E i \in Indices(pantryItems) :
                     pantryItems[i].id = updateOp.item.id
               /\ \A i \in Indices(pantryItems) :
                     /\ pantryItems'[i].id = pantryItems[i].id
                     /\ pantryItems'[i].expiry_date =
                           IF pantryItems[i].id = updateOp.item.id
                           THEN updateOp.input
                           ELSE pantryItems[i].expiry_date
       /\ (updateOp.pc = "update" /\ updateOp'.pc = "idle")
            => /\ pantryItems' = pantryItems
               /\ passes' = passes /\ scheduled' = scheduled
               /\ remote' = remote
               /\ toast' = <<"Update Failed">>
      ]_vars

\* The remote update of the second of two items has succeeded on a native
\* platform and changed its expiry.
C17_Witness ==
    /\ updateOp.pc = "sched"
    /\ platform = "native"
    /\ Len(pantryItems) = 2
    /\ pantryItems[2].id = updateOp.item.id
    /\ pantryItems[1].id # updateOp.item.id
    /\ pantryItems[2].expiry_date = updateOp.input
    /\ updateOp.input # updateOp.item.expiry_date

\* Days from a day to the date the two parse strategies resolve a string to.
DaysOut(s, day) == PlannerDate(s, engine) - day

\* An update in flight moves its item from 10 days out to yesterday.
TenDaysToYesterday ==
    /\ updateOp.item.expiry_date.form # "empty"
    /\ PlannerDate(updateOp.item.expiry_date, engine) # NaN
    /\ DaysOut(updateOp.item.expiry_date, now.day) = 10
    /\ PlannerDate(updateOp.input, engine) # NaN
    /\ DaysOut(updateOp.input, now.day) = -1

\* C18: when an update moves an item from 10 days out to yesterday, the step
\* that stores the answer sets that item's status to expired and leaves every
\* other item's status and planned events as they were; and the scheduling
\* call of the update, once it has run to the end, has requested exactly one
\* overdue reminder for the item and for every other item what was planned
\* for it before.
C18_UpdateToYesterday ==
    [][/\ (TenDaysToYesterday /\ updateOp.pc = "update" /\ updateOp'.pc = "sched")
            => \A i \in Indices(pantryItems) :
                  IF pantryItems[i].id = updateOp.item.id
                  THEN /\ pantryItems'[i].status = "expired"
                       /\ ItemEvents(pantryItems'[i], engine, now.day)
                             = <<Event(pantryItems'[i], "overdue", Immediate)>>
                  ELSE /\ pantryItems'[i].status = pantryItems[i].status
                       /\ ItemEvents(pantryItems'[i], engine, now.day)
                             = ItemEvents(pantryItems[i], engine, now.day)
       /\ (TenDaysToYesterday /\ updateOp.pc = "sched"
             /\ passes["update"].pc # "done" /\ Completed(passes'["update"]))
            => \A i \in Indices(updateOp.closure) :
                  LET before == updateOp.closure[i]
                      p == passes'["update"]
                  IN SentFor(p, before.id) =
                        IF before.id = updateOp.item.id
                        THEN <<Event(before, "overdue", Immediate)>>
                        ELSE ItemEvents(before, engine, now.day)
      ]_vars

\* C19: the step that starts a delete takes the item out of the collection,
\* keeps the other items, and leaves the server as it is, so the removal
\* precedes the remote outcome; and from that step until the outcome arrives
\* the item stays out, no scheduling call is running and the scheduled set
\* does not change.
C19_OptimisticRemoval ==
    [][/\ (deleteOp.pc = "idle" /\ deleteOp'.pc = "delete")
            => /\ deleteOp'.item.id \in IdSet(pantryItems)
               /\ deleteOp'.item.id \notin IdSet(pantryItems')
               /\ IdSet(pantryItems') = IdSet(pantryItems) \ {deleteOp'.item.id}
               /\ remote' = remote
       /\ deleteOp'.pc = "delete"
            => /\ deleteOp'.item.id \notin IdSet(pantryItems')
               /\ \A c \in Callers : passes'[c].pc = "none"
               /\ scheduled' = scheduled
      ]_vars

\* A delete is waiting for the server on a native platform: the item is out
\* of the collection, still on the server, and its reminder is still
\* scheduled.
C19_Witness ==
    /\ deleteOp.pc = "delete"
    /\ platform = "native"
    /\ deleteOp.item.id \notin IdSet(pantryItems)
    /\ deleteOp.item.id \in RemoteIds
    /\ \E e \in BagToSet(scheduled) : e.id = deleteOp.item.id

\* The ways a handler reports its end, and the ways a scheduling call ends.
EndToasts ==
    {<<"Welcome">>, <<"Pantry Error", "Welcome">>, <<"Item Added">>,
     <<"Add Failed">>, <<"Item Updated">>, <<"Update Failed">>,
     <<"Item Deleted">>, <<"Delete Failed">>}
PassResults == {"complete", "denied", "cancelFailed"}

\* C20: whatever fails (remote store, permission, cancel-all, a scheduling
\* request), the step that ends a load, create or update leaves the loading
\* flag cleared, every handler ends reporting one of its outcomes, every
\* scheduling call ends in one of its results, and again and again no handler
\* and no scheduling call is left running: each one that started has ended.
C20_AlwaysEndsCleanly ==
    /\ [][/\ (loadOp.pc # "idle" /\ loadOp'.pc = "idle")
               => pantryLoading' = FALSE /\ toast' \in EndToasts
          /\ (addOp.pc # "idle" /\ addOp'.pc = "idle")
               => pantryLoading' = FALSE /\ toast' \in EndToasts
          /\ (updateOp.pc # "idle" /\ updateOp'.pc = "idle")
               => pantryLoading' = FALSE /\ toast' \in EndToasts
          /\ (deleteOp.pc # "idle" /\ deleteOp'.pc = "idle")
               => toast' \in EndToasts
          /\ \A c \in Callers :
                passes'[c].pc = "done" => passes'[c].result \in PassResults
         ]_vars
    /\ []<>Quiet

\* A create is about to end after the cancel-all of its scheduling call
\* failed; the loading flag is still set.
C20_Witness ==
    /\ addOp.pc = "sched"
    /\ passes["add"].pc = "done"
    /\ passes["add"].result = "cancelFailed"
    /\ pantryLoading

\* C21: on the web a scheduling call ends at once, whatever the items are: it
\* never waits on the cancel-all, the permission request or a scheduling
\* request, it ends normally with nothing requested or dropped, and the
\* scheduled and presented notifications stay as they were.
C21_WebIsNoOp ==
    [][platform = "web" =>
          /\ \A c \in Callers :
                /\ passes'[c].pc \in {"none", "done"}
                /\ passes'[c].pc = "done" =>
                      /\ passes'[c].result = "web"
                      /\ passes'[c].sent = <<>>
                      /\ passes'[c].dropped = 0
                      /\ ~passes'[c].failed
          /\ scheduled' = scheduled
          /\ delivered' = delivered
          /\ \A s \in WideStrs :
                LET p == StartPass(<<Item("1", s, "fresh")>>, "web")
                IN p.pc = "done" /\ p.result = "web"
      ]_vars

\* On the web the scheduling call of a create over two items has ended with
\* nothing requested.
C21_Witness ==
    /\ platform = "web"
    /\ passes["add"].pc = "done"
    /\ passes["add"].result = "web"
    /\ Len(passes["add"].items) = 2
    /\ scheduled = EmptyBag

\* What a batch classification of `input` on a day may return as `output`.
BatchOf(input, output, today) ==
    /\ Len(output) = Len(input)
    /\ \A i \in Indices(input) :
          /\ DOMAIN output[i] = DOMAIN input[i]
          /\ \A f \in DOMAIN input[i] \ {"status"} : output[i][f] = input[i][f]
          /\ output[i].status
                = calculateExpiryStatus(input[i].expiry_date, engine, today)
          /\ \A j \in Indices(input) :
                input[i].expiry_date = input[j].expiry_date
                    => output[i].status = output[j].status
          /\ \A t \in BatchStrs :
                checkAndUpdateExpiryStatus(
                    <<Item("other", t, "fresh"), input[i]>>, engine, today)[2].status
                    = output[i].status

\* C22: the batch classification done by a load or a periodic check returns
\* as many items as it was given, in the same order, each equal to its input
\* except for the status; the status of an item is the classification of its
\* own expiry string, the same whatever the other items of the batch are; and
\* the list it was given (the store's answer) is left as it was.
C22_BatchClassification ==
    [][/\ (loadOp.pc = "fetch" /\ loadOp'.pc = "sched")
            => /\ BatchOf(ServerItems(remote), pantryItems', now.day)
               /\ remote' = remote
       /\ \A c \in {"tick", "resume"} :
             (PassFree(c) /\ passes'[c].pc # "none")
                => BatchOf(pantryItems, pantryItems', now.day)
      ]_vars

\* A loaded batch of an unparseable item and an item that expired: the first
\* is fresh, the second expired.
C22_Witness ==
    /\ Len(pantryItems) = 2
    /\ pantryItems[1].expiry_date = JunkStr
    /\ pantryItems[1].status = "fresh"
    /\ pantryItems[2].status = "expired"
    /\ pantryItems[2].id = "2"

\* C23: a periodic check (interval tick or return to the foreground) starts
\* only while the user is signed in; it keeps the length and order of the
\* collection and every field of every item except the status, which becomes
\* the classification on the current day; and the scheduling call it starts
\* is given exactly the reclassified collection.
C23_PeriodicCheckFrame ==
    [][\A c \in {"tick", "resume"} :
          (PassFree(c) /\ passes'[c].pc # "none")
             => /\ isAuthenticated /\ isAuthenticated'
                /\ Len(pantryItems') = Len(pantryItems)
                /\ \A i \in Indices(pantryItems) :
                      /\ DOMAIN pantryItems'[i] = DOMAIN pantryItems[i]
                      /\ \A f \in DOMAIN pantryItems[i] \ {"status"} :
                            pantryItems'[i][f] = pantryItems[i][f]
                      /\ pantryItems'[i].status =
                            calculateExpiryStatus(pantryItems[i].expiry_date,
                                                  engine, now.day)
                /\ passes'[c].items = pantryItems'
                /\ passes'[c].sent = <<>>
                /\ remote' = remote
      ]_vars

\* A periodic check on a native platform has reclassified an item held as
\* expiring to expired, and its scheduling call over the collection is at
\* its cancel-all.
C23_Witness ==
    \E c \in {"tick", "resume"} :
        /\ passes[c].pc = "cancel"
        /\ passes[c].items = pantryItems
        /\ isAuthenticated
        /\ \E i \in Indices(pantryItems) :
              /\ pantryItems[i].status = "expired"
              /\ BagIn(Event(pantryItems[i], "T-0",
                             AtNine(PlannerDate(pantryItems[i].expiry_date, engine))),
                       scheduled)

\* The calendar fields of a day number (years 2024 to 2029), and what
\* date.setDate(date.getDate() - n) makes of it: the day of the month is
\* lowered and a value below 1 rolls over into the months before.
YearOf(day) ==
    CHOOSE y \in 2024..2029 :
        DaysBeforeYear(y) <= day /\ day < DaysBeforeYear(y + 1)
MonthOf(day) ==
    LET y == YearOf(day) IN
    CHOOSE m \in 1..12 :
        /\ DaysBeforeYear(y) + DaysBeforeMonth(y, m) <= day
        /\ day < DaysBeforeYear(y) + DaysBeforeMonth(y, m) + DaysInMonth(y, m)
DateOf(day) ==
    day - DaysBeforeYear(YearOf(day)) - DaysBeforeMonth(YearOf(day), MonthOf(day)) + 1
SetDateBack(day, n) == MakeDate(YearOf(day), MonthOf(day) - 1, DateOf(day) - n)

\* One instant is before another.
Before(t, u) == t.day < u.day \/ (t.day = u.day /\ t.hour < u.hour)

KindRank(kind) ==
    CASE kind = "T-3" -> 1 [] kind = "T-1" -> 2 [] kind = "T-0" -> 3 [] OTHER -> 0

\* C24: among the reminders one call has requested for one item, the T-3
\* reminder fires before the T-1 reminder and the T-1 reminder before the
\* T-0 reminder; the fire times are 09:00 on the days the calendar arithmetic
\* of the code gives (expiry day, one day back, three days back).
C24_FireTimesOrdered ==
    \A c \in Callers :
        /\ \A k1, k2 \in 1..Len(passes[c].sent) :
              LET e1 == passes[c].sent[k1]
                  e2 == passes[c].sent[k2]
              IN (e1.id = e2.id /\ KindRank(e1.kind) > 0
                    /\ KindRank(e1.kind) < KindRank(e2.kind))
                    => Before(e1.fireAt, e2.fireAt)
        /\ \A k \in 1..Len(passes[c].sent) :
              LET e == passes[c].sent[k]
                  d == PlannerDate(Find(passes[c].items, e.id).expiry_date, engine)
              IN /\ e.kind = "T-0" => e.fireAt = [day |-> d, hour |-> 9]
                 /\ e.kind = "T-1"
                       => e.fireAt = [day |-> SetDateBack(d, 1), hour |-> 9]
                 /\ e.kind = "T-3"
                       => e.fireAt = [day |-> SetDateBack(d, 3), hour |-> 9]

\* A completed call has requested all three reminders of an item expiring on
\* Dec 2: the early warning falls in November, the other two in December.
C24_Witness ==
    \E c \in Callers :
        /\ Completed(passes[c])
        /\ \E i \in Indices(passes[c].items) :
              LET item == passes[c].items[i]
                  d == PlannerDate(item.expiry_date, engine)
              IN /\ item.expiry_date.form # "empty" /\ d = MakeDate(2025, 11, 2)
                 /\ Len(SentFor(passes[c], item.id)) = 3
                 /\ MonthOf(d - 3) = 11 /\ MonthOf(d - 1) = 12

\* The first instant of the current day, and instants spread over it.
Midnight == [day |-> now.day, hour |-> 0]
InstantsOfToday == {[day |-> now.day, hour |-> h] : h \in {0, 8, 10, 23}}

\* C25: a run at any time of a day gives what a run at the first instant of
\* that day gives: classified at any instant of the current day, every item
\* of the collection gets the same status and the same planned reminders
\* (kinds and fire times); a step that reclassifies the collection stores the
\* statuses of the day, and a scheduling call that starts its loop plans for
\* the day, whatever the hour.
C25_TimeOfDayIrrelevant ==
    [][/\ pantryItems' # pantryItems
             => \A i \in Indices(pantryItems') :
                   LET item == pantryItems'[i] IN
                   /\ item.status =
                         calculateExpiryStatus(item.expiry_date, engine, Midnight.day)
                   /\ \A t \in InstantsOfToday :
                         /\ calculateExpiryStatus(item.expiry_date, engine,
                                                  StartOfDay(t)) = item.status
                         /\ ItemEvents(item, engine, StartOfDay(t))
                               = ItemEvents(item, engine, Midnight.day)
       /\ \A c \in Callers :
             (passes[c].pc = "perm" /\ passes'[c].pc = "sched")
                => /\ passes'[c].today = Midnight.day
                   /\ CurrentEvent(passes'[c])
                         = ItemEvents(passes'[c].items[passes'[c].i], engine,
                                      Midnight.day)[1]
      ]_vars

\* After 09:00 a periodic check has run to the end over an item that expires
\* today: the item is expiring and its T-0 reminder, dated 09:00 today, has
\* been requested, exactly as a run before 09:00 would have done.
C25_Witness ==
    \E c \in {"tick", "resume"} :
        /\ now.hour = 10
        /\ Completed(passes[c])
        /\ passes[c].today = now.day
        /\ \E i \in Indices(pantryItems) :
              /\ passes[c].items = pantryItems
              /\ pantryItems[i].status = "expiring"
              /\ SentFor(passes[c], pantryItems[i].id)
                    = <<Event(pantryItems[i], "T-0", AtNine(now.day))>>

\* The kinds of reminder planned for an item on a day.
KindsPlanned(item, today) ==
    LET events == ItemEvents(item, engine, today)
    IN {events[k].kind : k \in 1..Len(events)}

\* C26: for every item of the collection the classifier and the planner
\* resolve the expiry string to the same date, or both fail; and on the
\* current day an item that is planned an overdue notification is classified
\* expired, an item that is planned a T-0, T-1 or T-3 reminder is not
\* classified expired, and an item the classifier finds more than 3 days out
\* is planned all three reminders.
C26_ClassifierPlannerAgree ==
    \A i \in Indices(pantryItems) :
        LET item == pantryItems[i]
            s == item.expiry_date
            today == StartOfDay(now)
            status == calculateExpiryStatus(s, engine, today)
            kinds == KindsPlanned(item, today)
        IN /\ s.form # "empty" => ClassifierDate(s, engine) = PlannerDate(s, engine)
           /\ "overdue" \in kinds => status = "expired"
           /\ kinds \cap {"T-0", "T-1", "T-3"} # {} => status # "expired"
           /\ (s.form # "empty" /\ ClassifierDate(s, engine) # NaN
                 /\ ClassifierDate(s, engine) - today > 3)
                 => {"T-0", "T-1", "T-3"} \subseteq kinds

\* C27: however many scheduling calls run (load, periodic checks, returns to
\* the foreground) while an item is in its overdue window, the immediate
\* overdue notification for that item has been presented at most once.
C27_OverdueSentOnce ==
    \A e \in BagToSet(delivered) :
        e.kind = "overdue" => CopiesIn(e, delivered) <= 1

\* C28: a request for a reminder with a fire time is never made for a fire
\* time that has already passed at the moment of the request; in particular
\* a reminder due at 09:00 of the current day is not requested after 09:00.
C28_NoPastFireTime ==
    [][\A c \in Callers :
          Len(passes'[c].sent) > Len(passes[c].sent)
             => LET e == passes'[c].sent[Len(passes'[c].sent)]
                IN e.fireAt # Immediate => ~Before(e.fireAt, now)
      ]_vars

\* C29: when the fetch of a load succeeds, the collection becomes the store's
\* list, item for item in the store's order, with each id as a string, each
\* expiry as stored and each status the classification on the current day,
\* whatever the collection held before; a scheduling call is started over
\* exactly that collection; the store is not changed. When the fetch fails
\* the collection, the scheduling calls and the scheduled reminders stay as
\* they were and the error is reported.
C29_LoadReplaces ==
    [][/\ (loadOp.pc = "fetch" /\ loadOp'.pc = "sched")
            => /\ Len(pantryItems') = Len(remote)
               /\ \A i \in Indices(remote) :
                     /\ pantryItems'[i].id = ToString(remote[i].id)
                     /\ pantryItems'[i].expiry_date = remote[i].expiry_date
                     /\ pantryItems'[i].status =
                           calculateExpiryStatus(remote[i].expiry_date, engine,
                                                 StartOfDay(now))
               /\ passes'["load"].pc # "none"
               /\ passes'["load"].items = pantryItems'
               /\ passes'["load"].sent = <<>>
               /\ remote' = remote
       /\ (loadOp.pc = "fetch" /\ loadOp'.pc = "idle")
            => /\ pantryItems' = pantryItems
               /\ passes' = passes
               /\ scheduled' = scheduled /\ delivered' = delivered
               /\ toast'[1] = "Pantry Error"
      ]_vars

\* A second sign-in, on the day after an item's expiry day: the first load
\* had stored the item as expiring and scheduled its T-0 reminder; the second
\* load has replaced the collection by the store's list, the item now
\* expired, and its scheduling call is at the cancel-all.
C29_Witness ==
    /\ started = 2
    /\ loadOp.pc = "sched"
    /\ passes["load"].pc = "cancel"
    /\ passes["load"].items = pantryItems
    /\ Len(pantryItems) = Len(remote)
    /\ \E i \in Indices(pantryItems) :
          /\ pantryItems[i].status = "expired"
          /\ BagIn(Event(pantryItems[i], "T-0",
                         AtNine(PlannerDate(pantryItems[i].expiry_date, engine))),
                   scheduled)

\* C30: when the cancel-all of a scheduling call fails, the call ends on that
\* step: it has made no request, it never reaches the permission check or a
\* scheduling request, and the scheduled and presented notifications are as
\* they were; the call settles normally, so the load that awaits it ends with
\* its usual toast and no error is shown.
C30_CancelFailureEndsCall ==
    [][\A c \in Callers :
          /\ PassCancelFail(c)
                => /\ passes'[c].pc = "done"
                   /\ passes'[c].result = "cancelFailed"
                   /\ passes'[c].sent = <<>>
                   /\ scheduled' = scheduled
                   /\ delivered' = delivered
          /\ passes[c].result = "cancelFailed"
                => /\ passes'[c].pc \in {"done", "none"}
                   /\ scheduled' = scheduled
                   /\ delivered' = delivered
                   /\ passes'[c].pc = "none"
                         => toast' \in {<<>>, <<"Welcome">>}
      ]_vars

\* The cancel-all of a periodic check has failed: the call has ended, and the
\* reminders scheduled by the load are still there.
C30_Witness ==
    \E c \in {"tick", "resume"} :
        /\ passes[c].pc = "done"
        /\ passes[c].result = "cancelFailed"
        /\ passes[c].sent = <<>>
        /\ BagCardinality(scheduled) >= 2

====
